---- MODULE Spec2Model ----
(***************************************************************************)
(* Model of src/common/system/system_linux.cpp (CSystemUtilsLinux), the    *)
(* Linux backend of Colobot's system utilities: the zenity probe, system   *)
(* dialogs, time stamps, the save directory, environment variables and     *)
(* xdg-open.                                                               *)
(*                                                                         *)
(* Two specifications share the variables:                                 *)
(*   Spec      the object's life: construction, Init(), then any sequence  *)
(*             of the public operations, with the clocks ticking;          *)
(*   TimeSpec  the time-stamp arithmetic as pure functions, the inputs     *)
(*             drawn from bounded sets by the initial predicate.           *)
(*                                                                         *)
(* TLC's integers are 32 bits wide; the sets of sample values keep every   *)
(* "long long" the model computes inside that range.                       *)
(***************************************************************************)
EXTENDS Integers, Sequences, FiniteSets, TLC

VARIABLES
    pc,                 \* "created" before Init(), "ready" after it
    portable,           \* build option PORTABLE_SAVES || DEV_BUILD
    m_zenityAvailable,  \* the member flag
    flagWrites,         \* number of stores made to m_zenityAvailable
    probe,              \* how the "zenity --version" child of Init() ended
    env,                \* the process environment: name -> getenv() result
    monoClock,          \* CLOCK_MONOTONIC_RAW
    wallClock,          \* CLOCK_REALTIME (may be stepped by the administrator)
    stamps,             \* the time stamps captured so far, oldest first
    last,               \* what the last operation did and returned
    arg_a, arg_b,       \* TimeSpec: the time-stamp arguments a and b
    arg_i,              \* TimeSpec: the float argument i
    dst,                \* TimeSpec: InterpolateTimeStamp's output
    exactDiff,          \* TimeSpec: TimeStampExactDiff's result
    tcall               \* TimeSpec: which function ran last

sysVars  == <<pc, portable, m_zenityAvailable, flagWrites, probe, env, monoClock,
              wallClock, stamps, last>>
timeVars == <<arg_a, arg_b, arg_i, dst, exactDiff, tcall>>
vars     == <<pc, portable, m_zenityAvailable, flagWrites, probe, env, monoClock,
              wallClock, stamps, last, arg_a, arg_b, arg_i, dst, exactDiff, tcall>>

----------------------------------------------------------------------------
(* C++ integer arithmetic *)

Abs(x) == IF x < 0 THEN -x ELSE x

\* C++ '/' on integers: the quotient truncated toward zero (y > 0).
CDiv(x, y) == IF x >= 0 THEN x \div y ELSE -((-x) \div y)

\* C++ '%' on integers: the remainder has the sign of the dividend.
CMod(x, y) == x - y * CDiv(x, y)

\* Nanoseconds per second, the literal 1000000000 of the time-stamp code.
NSEC_PER_SEC == 1000000000

----------------------------------------------------------------------------
(* IEEE-754 single precision, as far as "delta *= i" needs it.  A float is *)
(* [s, m, e] with value s * m * 2^e, s in {-1, 1}, 0 <= m <= 2^24.         *)

\* 2^FLT_MANT_DIG: a float's significand holds 24 bits.
FloatMantissa == 2^24

MkFloat(s, m, e) == [s |-> s, m |-> m, e |-> e]

\* Bits to drop so that magnitude m fits the significand.
ShiftFor(m) ==
    CHOOSE k \in 0..8 :
        /\ m \div 2^k < FloatMantissa
        /\ k > 0 => m \div 2^(k-1) >= FloatMantissa

\* Round magnitude m * 2^e to the nearest float, ties to even.
RoundToFloat(s, m, e) ==
    LET k    == ShiftFor(m)
        q    == m \div 2^k
        r    == m % 2^k
        half == IF k = 0 THEN 0 ELSE 2^(k-1)
        up   == k > 0 /\ (r > half \/ (r = half /\ q % 2 = 1))
    IN  MkFloat(s, IF up THEN q + 1 ELSE q, e + k)

\* The usual arithmetic conversion long long -> float.
LLToFloat(x) == RoundToFloat(IF x < 0 THEN -1 ELSE 1, Abs(x), 0)

\* float * float, rounded once.
FloatMul(f, g) == RoundToFloat(f.s * g.s, f.m * g.m, f.e + g.e)

\* float -> long long: the fractional part is discarded (toward zero).
FloatToLL(f) ==
    IF f.e >= 0 THEN f.s * f.m * 2^(f.e)
    ELSE f.s * (f.m \div 2^(-f.e))

----------------------------------------------------------------------------
(* Time stamps: struct timespec clockTime *)

TS(sec, nsec) == [tv_sec |-> sec, tv_nsec |-> nsec]

\* TimeStampExactDiff with the seconds left unscaled.
TimeStampExactDiff_Unscaled(before, after) ==
    (after.tv_nsec - before.tv_nsec) + (after.tv_sec - before.tv_sec)

\* long long TimeStampExactDiff(before, after)
TimeStampExactDiff(before, after) ==
    (after.tv_nsec - before.tv_nsec) +
    (after.tv_sec - before.tv_sec) * NSEC_PER_SEC

\* delta after "delta *= i": long long * float is a float product, stored
\* back into the long long.
ScaledDelta(ta, tb, f) ==
    FloatToLL(FloatMul(LLToFloat(TimeStampExactDiff(ta, tb)), f))

\* void InterpolateTimeStamp(dst, a, b, i): the value left in *dst.
InterpolateTimeStamp(ta, tb, f) ==
    LET delta == ScaledDelta(ta, tb, f)
        sec   == ta.tv_sec + CDiv(delta, NSEC_PER_SEC)
        nsec  == ta.tv_nsec + CMod(delta, NSEC_PER_SEC)
    IN  IF nsec >= NSEC_PER_SEC
        THEN TS(sec + 1, nsec - NSEC_PER_SEC)
        ELSE TS(sec, nsec)

\* Is time stamp t the form clock_gettime() produces?
Normalized(t) == t.tv_nsec >= 0 /\ t.tv_nsec < NSEC_PER_SEC

\* Is tb strictly later than ta? (both normalized)
Later(ta, tb) ==
    \/ tb.tv_sec > ta.tv_sec
    \/ tb.tv_sec = ta.tv_sec /\ tb.tv_nsec > ta.tv_nsec

----------------------------------------------------------------------------
(* Sample values *)

SecValues  == {0, 1}
NsecValues == {0, 1, 16777217, 500000000, 999999999}
TimeStamps == {TS(s, n) : s \in SecValues, n \in NsecValues}

\* Values of the float i: 0, 1/4, 1/2, 3/4, 1 and, outside [0,1], -1, -1/2, 5/4.
Fractions ==
    { MkFloat(1, 0, 0), MkFloat(1, 1, -2), MkFloat(1, 1, -1), MkFloat(1, 3, -2),
      MkFloat(1, 1, 0), MkFloat(-1, 1, 0), MkFloat(-1, 1, -1), MkFloat(1, 5, -2) }

FloatZero == MkFloat(1, 0, 0)
FloatOne  == MkFloat(1, 1, 0)

\* Is 0 <= f <= 1?
InUnit(f) == f.m = 0 \/ (f.s = 1 /\ f.e <= 0 /\ f.m <= 2^(-f.e))

\* Does |d * f| stay well inside the 32 bits of the model checker's integers?
Checkable(d, f) ==
    LET den == IF f.e < 0 THEN 2^(-f.e) ELSE 1
        num == f.m * (IF f.e > 0 THEN 2^(f.e) ELSE 1)
    IN  IF num = 0 THEN TRUE
        ELSE (Abs(d) \div den) + 1 <= (2147483647 - 4096) \div num

\* d * f in exact arithmetic, truncated toward zero.
TruncMul(d, f) ==
    LET den == IF f.e < 0 THEN 2^(-f.e) ELSE 1
        num == f.m * (IF f.e > 0 THEN 2^(f.e) ELSE 1)
        q   == Abs(d) \div den
        r   == Abs(d) % den
        mag == q * num + (r * num) \div den
    IN  (IF d < 0 THEN -1 ELSE 1) * f.s * mag

----------------------------------------------------------------------------
(* The process environment and child processes *)

\* char* results of getenv(): nullptr, or a C string.
NullPtr == [null |-> TRUE, str |-> ""]
CStr(str) == [null |-> FALSE, str |-> str]

EnvNames == {"XDG_DATA_HOME", "HOME", "DEFINITELY_UNSET_VAR_X"}

\* The environments a build reading them may be started in.
Environments ==
    { [n \in EnvNames |->
          CASE n = "XDG_DATA_HOME" -> x
            [] n = "HOME" -> h
            [] OTHER -> NullPtr] :
      x \in {NullPtr, CStr(""), CStr("/xdg")},
      h \in {NullPtr, CStr(""), CStr("/home/u")} }

\* The environment sampled for a portable build, which reads none of it
\* for its save directory.
PortableEnvironment ==
    [n \in EnvNames |->
        CASE n = "XDG_DATA_HOME" -> CStr("/xdg")
          [] n = "HOME" -> CStr("/home/u")
          [] OTHER -> NullPtr]

\* char* getenv(name)
getenv(name) == env[name]

\* How a child started by system() ends: it exits with a code, a signal
\* kills it, or it could not be created at all.
Exited(code) == [how |-> "exited", n |-> code]
Signaled(sig) == [how |-> "signaled", n |-> sig]
ForkFailed == [how |-> "failed", n |-> 0]
NoChild == [how |-> "none", n |-> 0]

ExitCodes == {0, 1, 255}
Outcomes == {Exited(c) : c \in ExitCodes} \cup {Signaled(9), ForkFailed}

\* How the probe of Init() may end: zenity installed, not installed (the
\* shell exits with 127), or no child at all.
ProbeOutcomes == {Exited(0), Exited(127), ForkFailed}

\* int system(command): the child's wait status, as waitpid() reports it
\* (exit code in bits 8..15, terminating signal in the low bits), or -1.
system(outcome) ==
    CASE outcome.how = "exited" -> outcome.n * 256
      [] outcome.how = "signaled" -> outcome.n
      [] OTHER -> -1

\* One call of system(): the command line, how the child ended, the value
\* returned.
Invocation(command, outcome) ==
    [cmd |-> command, outcome |-> outcome, status |-> system(outcome)]

\* One message handed to the logger.
Log(level, msg) == [level |-> level, msg |-> msg]

----------------------------------------------------------------------------
(* The methods of CSystemUtilsLinux, as what one call does and returns *)

\* What an operation left behind: its name and argument, its return value,
\* the system() calls it made, the results of the console dialogs it showed
\* and the messages it logged.
NoCall ==
    [op |-> "none", arg |-> "", ret |-> "", sys |-> <<>>, console |-> <<>>,
     log |-> <<>>]

Call(op, arg, ret, sys, console, log) ==
    [op |-> op, arg |-> arg, ret |-> ret, sys |-> sys, console |-> console,
     log |-> log]

SystemDialogTypes ==
    {"SDT_INFO", "SDT_WARNING", "SDT_ERROR", "SDT_YES_NO", "SDT_OK_CANCEL"}
SystemDialogResults == {"SDR_OK", "SDR_CANCEL", "SDR_YES", "SDR_NO"}

\* Init() that warns but leaves the flag set when the probe fails.
InitProbe_FlagKept(outcome) ==
    LET inv == Invocation("zenity --version 1> /dev/null 2> /dev/null", outcome)
    IN  IF inv.status # 0
        THEN [flag |-> TRUE, writes |-> 1, sys |-> <<inv>>,
              log |-> <<Log("Warn",
                  "Zenity not available, will fallback to console users dialogs.\n")>>]
        ELSE [flag |-> TRUE, writes |-> 1, sys |-> <<inv>>, log |-> <<>>]

\* void Init(): the flag, the number of stores to it, and the log.
InitProbe(outcome) ==
    LET inv == Invocation("zenity --version 1> /dev/null 2> /dev/null", outcome)
    IN  IF inv.status # 0
        THEN [flag |-> FALSE, writes |-> 2, sys |-> <<inv>>,
              log |-> <<Log("Warn",
                  "Zenity not available, will fallback to console users dialogs.\n")>>]
        ELSE [flag |-> TRUE, writes |-> 1, sys |-> <<inv>>, log |-> <<>>]

\* CSystemUtils::ConsoleSystemDialog: the console prompt; its answer is the
\* user's.
ConsoleSystemDialog(type, title, message, answer) == answer

\* SystemDialog whose second switch lacks the SDT_OK_CANCEL case.
SystemDialog_NoOkCancelCase(type, title, message, outcome, answer) ==
    IF ~m_zenityAvailable
    THEN Call("SystemDialog", type,
              ConsoleSystemDialog(type, title, message, answer),
              <<>>, <<answer>>, <<>>)
    ELSE
        LET inv  == Invocation("zenity", outcome)
            code == inv.status
            result ==
                CASE type = "SDT_YES_NO" ->
                        IF code # 0 THEN "SDR_NO" ELSE "SDR_YES"
                  [] OTHER -> "SDR_OK"
        IN  Call("SystemDialog", type, result, <<inv>>, <<>>, <<>>)

\* SystemDialogResult SystemDialog(type, title, message)
SystemDialog(type, title, message, outcome, answer) ==
    IF ~m_zenityAvailable
    THEN Call("SystemDialog", type,
              ConsoleSystemDialog(type, title, message, answer),
              <<>>, <<answer>>, <<>>)
    ELSE
        LET options ==
                CASE type = "SDT_WARNING" -> "--warning"
                  [] type = "SDT_ERROR" -> "--error"
                  [] type = "SDT_YES_NO" ->
                        "--question --ok-label=\"Yes\" --cancel-label=\"No\""
                  [] type = "SDT_OK_CANCEL" ->
                        "--question --ok-label=\"OK\" --cancel-label=\"Cancel\""
                  [] OTHER -> "--info"
            command == "zenity " \o options \o " --text=\"" \o message
                           \o "\" --title=\"" \o title \o "\""
            inv  == Invocation(command, outcome)
            code == inv.status
            result ==
                CASE type = "SDT_YES_NO" ->
                        IF code # 0 THEN "SDR_NO" ELSE "SDR_YES"
                  [] type = "SDT_OK_CANCEL" ->
                        IF code # 0 THEN "SDR_CANCEL" ELSE "SDR_OK"
                  [] OTHER -> "SDR_OK"
        IN  Call("SystemDialog", type, result, <<inv>>, <<>>, <<>>)

\* GetCurrentTimeStamp reading CLOCK_REALTIME.
GetCurrentTimeStamp_Realtime == wallClock

\* void GetCurrentTimeStamp(stamp): clock_gettime(CLOCK_MONOTONIC_RAW, ...)
GetCurrentTimeStamp == monoClock

\* CSystemUtils::GetSaveDir(), the built-in default path.
DefaultSaveDir == "./saves"

\* std::string GetEnvVar(name)
GetEnvVar(name) ==
    LET envVar == getenv(name)
    IN  IF ~envVar.null
        THEN [ret |-> envVar.str,
              log |-> <<Log("Trace", "Detected environment variable " \o name
                                  \o " = " \o envVar.str \o "\n")>>]
        ELSE [ret |-> "", log |-> <<>>]

\* GetSaveDir that looks at HOME before XDG_DATA_HOME.
GetSaveDir_HomeFirst ==
    IF portable
    THEN [ret |-> DefaultSaveDir, log |-> <<>>]
    ELSE
        LET envXDG_DATA_HOME == GetEnvVar("XDG_DATA_HOME")
            envHOME == GetEnvVar("HOME")
            trace(dir) ==
                <<Log("Trace", "Saved game files are going to " \o dir \o "\n")>>
        IN  IF envHOME.ret # ""
            THEN [ret |-> envHOME.ret \o "/.local/share/colobot",
                  log |-> envHOME.log
                      \o trace(envHOME.ret \o "/.local/share/colobot")]
            ELSE IF envXDG_DATA_HOME.ret # ""
            THEN [ret |-> envXDG_DATA_HOME.ret \o "/colobot",
                  log |-> envXDG_DATA_HOME.log
                      \o trace(envXDG_DATA_HOME.ret \o "/colobot")]
            ELSE [ret |-> DefaultSaveDir,
                  log |-> <<Log("Warn",
                          "Unable to find directory for saves - using default directory")>>
                      \o trace(DefaultSaveDir)]

\* std::string GetSaveDir()
GetSaveDir ==
    IF portable
    THEN [ret |-> DefaultSaveDir, log |-> <<>>]
    ELSE
        LET envXDG_DATA_HOME == GetEnvVar("XDG_DATA_HOME")
            envHOME == GetEnvVar("HOME")
            trace(dir) ==
                <<Log("Trace", "Saved game files are going to " \o dir \o "\n")>>
        IN  IF envXDG_DATA_HOME.ret = ""
            THEN IF envHOME.ret = ""
                 THEN [ret |-> DefaultSaveDir,
                       log |-> envXDG_DATA_HOME.log \o envHOME.log
                           \o <<Log("Warn",
                               "Unable to find directory for saves - using default directory")>>
                           \o trace(DefaultSaveDir)]
                 ELSE [ret |-> envHOME.ret \o "/.local/share/colobot",
                       log |-> envXDG_DATA_HOME.log \o envHOME.log
                           \o trace(envHOME.ret \o "/.local/share/colobot")]
            ELSE [ret |-> envXDG_DATA_HOME.ret \o "/colobot",
                  log |-> envXDG_DATA_HOME.log
                      \o trace(envXDG_DATA_HOME.ret \o "/colobot")]

\* bool OpenPath(path)
OpenPath(path, outcome) ==
    LET inv == Invocation("xdg-open \"" \o path \o "\"", outcome)
        result == inv.status
    IN  IF result # 0
        THEN Call("OpenPath", path, FALSE, <<inv>>, <<>>,
                  <<Log("Error", "Failed to open path: " \o path
                        \o ", error code: " \o ToString(result) \o "\n")>>)
        ELSE Call("OpenPath", path, TRUE, <<inv>>, <<>>, <<>>)

\* bool OpenWebsite(url)
OpenWebsite(url, outcome) ==
    LET inv == Invocation("xdg-open \"" \o url \o "\"", outcome)
        result == inv.status
    IN  IF result # 0
        THEN Call("OpenWebsite", url, FALSE, <<inv>>, <<>>,
                  <<Log("Error", "Failed to open website: " \o url
                        \o ", error code: " \o ToString(result) \o "\n")>>)
        ELSE Call("OpenWebsite", url, TRUE, <<inv>>, <<>>, <<>>)

----------------------------------------------------------------------------
(* TimeSpec: the time-stamp functions applied to sampled arguments *)

SystemIdle ==
    /\ pc = "created"
    /\ portable = FALSE
    /\ m_zenityAvailable = TRUE
    /\ flagWrites = 0
    /\ probe = NoChild
    /\ env = [n \in EnvNames |-> NullPtr]
    /\ monoClock = TS(0, 0)
    /\ wallClock = TS(0, 0)
    /\ stamps = <<>>
    /\ last = NoCall

TimeInit ==
    /\ SystemIdle
    /\ arg_a \in TimeStamps
    /\ arg_b \in TimeStamps
    /\ arg_i \in Fractions
    /\ Checkable(TimeStampExactDiff(arg_a, arg_b), arg_i)
    /\ dst = TS(0, 0)
    /\ exactDiff = 0
    /\ tcall = "none"

CallInterpolateTimeStamp ==
    /\ dst' = InterpolateTimeStamp(arg_a, arg_b, arg_i)
    /\ tcall' = "interpolate"
    /\ UNCHANGED <<arg_a, arg_b, arg_i, exactDiff>>
    /\ UNCHANGED sysVars

CallTimeStampExactDiff ==
    /\ exactDiff' = TimeStampExactDiff(arg_a, arg_b)
    /\ tcall' = "diff"
    /\ UNCHANGED <<arg_a, arg_b, arg_i, dst>>
    /\ UNCHANGED sysVars

TimeNext == CallInterpolateTimeStamp \/ CallTimeStampExactDiff

TimeSpec == TimeInit /\ [][TimeNext]_vars

----------------------------------------------------------------------------
(* Spec: the life of one CSystemUtilsLinux object *)

\* Number of captured time stamps the model remembers (the newest ones).
MaxStamps == 2

\* Readings of the clocks.
ClockValues == {TS(0, 0), TS(0, 999999999), TS(1, 0)}
WallValues  == {TS(0, 0), TS(1, 0)}

\* Values of i used on captured stamps: 0, 1/2, 1.
SpecFractions == {MkFloat(1, 0, 0), MkFloat(1, 1, -1), MkFloat(1, 1, 0)}

TimeIdle ==
    /\ arg_a = TS(0, 0)
    /\ arg_b = TS(0, 0)
    /\ arg_i = FloatZero
    /\ dst = TS(0, 0)
    /\ exactDiff = 0
    /\ tcall = "none"

\* The object has been created; Init() has not run yet.
Init ==
    /\ pc = "created"
    /\ portable \in BOOLEAN
    /\ m_zenityAvailable \in BOOLEAN
    /\ flagWrites = 0
    /\ probe = NoChild
    /\ env \in IF portable THEN {PortableEnvironment} ELSE Environments
    /\ monoClock = TS(0, 0)
    /\ wallClock \in WallValues
    /\ stamps = <<>>
    /\ last = NoCall
    /\ TimeIdle

\* CSystemUtilsLinux::Init()
CSystemUtilsLinux_Init ==
    /\ pc = "created"
    /\ \E outcome \in ProbeOutcomes :
         LET r == InitProbe(outcome)
         IN  /\ m_zenityAvailable' = r.flag
             /\ flagWrites' = flagWrites + r.writes
             /\ probe' = outcome
             /\ last' = Call("Init", "", "", r.sys, <<>>, r.log)
    /\ pc' = "ready"
    /\ UNCHANGED <<portable, env, monoClock, wallClock, stamps>>
    /\ UNCHANGED timeVars

\* An operation that changes nothing but the record of the last call.
Returns(call) ==
    /\ pc = "ready"
    /\ last' = call
    /\ UNCHANGED <<pc, portable, m_zenityAvailable, flagWrites, probe, env,
                   monoClock, wallClock, stamps>>
    /\ UNCHANGED timeVars

\* SystemDialog that marks zenity unavailable when its child could not be
\* run.
DoSystemDialog_Reprobe ==
    /\ pc = "ready"
    /\ \E type \in SystemDialogTypes,
          outcome \in IF m_zenityAvailable THEN Outcomes ELSE {NoChild},
          answer \in IF m_zenityAvailable THEN {"SDR_OK"} ELSE SystemDialogResults :
         /\ last' = SystemDialog(type, "title", "message", outcome, answer)
         /\ m_zenityAvailable' = (m_zenityAvailable /\ outcome # ForkFailed)
    /\ UNCHANGED <<pc, portable, flagWrites, probe, env, monoClock, wallClock,
                   stamps>>
    /\ UNCHANGED timeVars

\* The zenity child ends in some way when it is started; the console user
\* answers when asked.
DoSystemDialog ==
    \E type \in SystemDialogTypes,
       outcome \in IF m_zenityAvailable THEN Outcomes ELSE {NoChild},
       answer \in IF m_zenityAvailable THEN {"SDR_OK"} ELSE SystemDialogResults :
        Returns(SystemDialog(type, "title", "message", outcome, answer))

DoGetCurrentTimeStamp ==
    /\ pc = "ready"
    /\ stamps' = IF Len(stamps) < MaxStamps
                 THEN Append(stamps, GetCurrentTimeStamp)
                 ELSE Append(Tail(stamps), GetCurrentTimeStamp)
    /\ last' = Call("GetCurrentTimeStamp", "", GetCurrentTimeStamp,
                    <<>>, <<>>, <<>>)
    /\ UNCHANGED <<pc, portable, m_zenityAvailable, flagWrites, probe, env,
                   monoClock, wallClock>>
    /\ UNCHANGED timeVars

DoTimeStampExactDiff ==
    \E x \in 1..Len(stamps), y \in 1..Len(stamps) :
        Returns(Call("TimeStampExactDiff", <<x, y>>,
                     TimeStampExactDiff(stamps[x], stamps[y]),
                     <<>>, <<>>, <<>>))

DoInterpolateTimeStamp ==
    \E x \in 1..Len(stamps), y \in 1..Len(stamps), f \in SpecFractions :
        /\ Checkable(TimeStampExactDiff(stamps[x], stamps[y]), f)
        /\ Returns(Call("InterpolateTimeStamp", <<x, y, f>>,
                        InterpolateTimeStamp(stamps[x], stamps[y], f),
                        <<>>, <<>>, <<>>))

DoGetSaveDir ==
    Returns(Call("GetSaveDir", "", GetSaveDir.ret, <<>>, <<>>, GetSaveDir.log))

DoGetEnvVar ==
    \E name \in EnvNames :
        Returns(Call("GetEnvVar", name, GetEnvVar(name).ret, <<>>, <<>>,
                     GetEnvVar(name).log))

DoOpenPath ==
    \E outcome \in Outcomes : Returns(OpenPath("/path", outcome))

DoOpenWebsite ==
    \E outcome \in Outcomes : Returns(OpenWebsite("http://site", outcome))

\* void Usleep(usec): usleep() returns once at least usec microseconds have
\* passed on the monotonic clock.
DoUsleep ==
    /\ pc = "ready"
    /\ \E usec \in {0, 1} :
         /\ monoClock' \in
                {t \in ClockValues :
                    TimeStampExactDiff(monoClock, t) >= usec * 1000}
         /\ last' = Call("Usleep", usec, "", <<>>, <<>>, <<>>)
    /\ UNCHANGED <<pc, portable, m_zenityAvailable, flagWrites, probe, env,
                   wallClock, stamps>>
    /\ UNCHANGED timeVars

\* Time passes: the monotonic clock only moves forward.
Tick ==
    /\ monoClock' \in {t \in ClockValues : Later(monoClock, t)}
    /\ UNCHANGED <<pc, portable, m_zenityAvailable, flagWrites, probe, env,
                   wallClock, stamps, last>>
    /\ UNCHANGED timeVars

\* The administrator (or NTP) steps the wall clock, forward or backward.
AdjustWallClock ==
    /\ wallClock' \in WallValues \ {wallClock}
    /\ UNCHANGED <<pc, portable, m_zenityAvailable, flagWrites, probe, env,
                   monoClock, stamps, last>>
    /\ UNCHANGED timeVars

Next ==
    \/ CSystemUtilsLinux_Init
    \/ DoSystemDialog
    \/ DoGetCurrentTimeStamp
    \/ DoTimeStampExactDiff
    \/ DoInterpolateTimeStamp
    \/ DoGetSaveDir
    \/ DoGetEnvVar
    \/ DoOpenPath
    \/ DoOpenWebsite
    \/ DoUsleep
    \/ Tick
    \/ AdjustWallClock

Spec == Init /\ [][Next]_vars

----------------------------------------------------------------------------
(* Claims about the object's operations (Spec) *)

\* The result the dialog type and the child's exit code call for.
ResultFor(type, exitCode) ==
    CASE type = "SDT_YES_NO" -> IF exitCode = 0 THEN "SDR_YES" ELSE "SDR_NO"
      [] type = "SDT_OK_CANCEL" -> IF exitCode = 0 THEN "SDR_OK" ELSE "SDR_CANCEL"
      [] OTHER -> "SDR_OK"

\* C1: with zenity available, SystemDialog's result depends on the dialog
\* type and zenity's exit code only: SDT_YES_NO gives SDR_YES for exit code 0
\* and SDR_NO for any other, SDT_OK_CANCEL gives SDR_OK for 0 and SDR_CANCEL
\* for any other, and the informational types give SDR_OK whatever the code.
C1_DialogResultFromExitCode ==
    (last.op = "SystemDialog" /\ m_zenityAvailable) =>
        /\ Len(last.sys) = 1
        /\ last.sys[1].outcome.how = "exited" =>
               last.ret = ResultFor(last.arg, last.sys[1].outcome.n)

C1_Witness ==
    /\ last.op = "SystemDialog"
    /\ m_zenityAvailable
    /\ last.arg = "SDT_OK_CANCEL"
    /\ last.sys[1].outcome = Exited(255)
    /\ last.ret = "SDR_CANCEL"

\* C5: of two time stamps captured one after the other, the later one is
\* never earlier: TimeStampExactDiff(earlier, later) >= 0, whatever happened
\* between the two captures.
C5_CapturesMonotonic ==
    \A x \in 1..Len(stamps), y \in 1..Len(stamps) :
        x < y => TimeStampExactDiff(stamps[x], stamps[y]) >= 0

C5_Witness ==
    /\ Len(stamps) = 2
    /\ stamps[1] = TS(0, 999999999)
    /\ stamps[2] = TS(1, 0)
    /\ wallClock = TS(0, 0)

\* C6: OpenPath and OpenWebsite run the launcher once, return true exactly
\* when its exit code is 0, and on a nonzero exit code log one error that
\* carries that exit code.
C6_OpenReportsExitCode ==
    (last.op \in {"OpenPath", "OpenWebsite"}
        /\ last.sys[1].outcome.how = "exited") =>
        LET exitCode == last.sys[1].outcome.n
            what == IF last.op = "OpenPath" THEN "path" ELSE "website"
        IN  /\ Len(last.sys) = 1
            /\ last.ret = (exitCode = 0)
            /\ last.log =
                 IF exitCode = 0 THEN <<>>
                 ELSE <<Log("Error", "Failed to open " \o what \o ": "
                            \o last.arg \o ", error code: "
                            \o ToString(exitCode) \o "\n")>>

\* C7 as claimed: Init() stores to the flag a single time.
C7_SingleWrite == pc = "ready" => flagWrites = 1

\* C7, amended: only Init() stores to the flag, once when the probe succeeds
\* and twice (true, then false) when it fails; after Init() no operation
\* changes the flag.
C7_FlagWrittenOnlyByInit ==
    /\ [](pc = "ready" =>
            flagWrites = (IF m_zenityAvailable THEN 1 ELSE 2))
    /\ [][pc = "ready" =>
            (m_zenityAvailable' = m_zenityAvailable /\ flagWrites' = flagWrites)]_vars

C7_Witness ==
    /\ pc = "ready"
    /\ flagWrites = 2
    /\ last.op = "SystemDialog"
    /\ Len(stamps) = 2

\* A variable that is unset or set to the empty string.
Unset(name) == env[name].null \/ env[name].str = ""

\* The directory the precedence XDG_DATA_HOME, HOME, default calls for.
ChosenSaveDir ==
    IF ~Unset("XDG_DATA_HOME") THEN env["XDG_DATA_HOME"].str \o "/colobot"
    ELSE IF ~Unset("HOME") THEN env["HOME"].str \o "/.local/share/colobot"
    ELSE DefaultSaveDir

\* How many times message m occurs in log l.
Occurrences(l, m) == Cardinality({k \in 1..Len(l) : l[k] = m})

\* How many messages of a level log l holds.
AtLevel(l, level) == Cardinality({k \in 1..Len(l) : l[k].level = level})

\* C8: in a non-portable build GetSaveDir returns XDG_DATA_HOME/colobot if
\* XDG_DATA_HOME is non-empty, else HOME/.local/share/colobot if HOME is
\* non-empty, else the default; it warns exactly when the default is used,
\* traces the chosen path in all three cases, and treats a variable set to
\* the empty string as an unset one.
C8_SaveDirPrecedence ==
    (last.op = "GetSaveDir" /\ ~portable) =>
        /\ last.ret = ChosenSaveDir
        /\ AtLevel(last.log, "Warn") =
               (IF Unset("XDG_DATA_HOME") /\ Unset("HOME") THEN 1 ELSE 0)
        /\ Occurrences(last.log,
               Log("Trace", "Saved game files are going to "
                            \o ChosenSaveDir \o "\n")) = 1

C8_Witness ==
    /\ last.op = "GetSaveDir"
    /\ ~portable
    /\ env["XDG_DATA_HOME"] = CStr("")
    /\ env["HOME"] = CStr("/home/u")
    /\ last.ret = "/home/u/.local/share/colobot"

\* C9: the probe of Init() alone decides the mode.  If it does not exit with
\* 0, Init() logs a warning and completes, and every later SystemDialog
\* returns the console dialog's answer without running zenity; if it exits
\* with 0, Init() logs nothing and every later SystemDialog runs zenity once
\* and shows no console dialog.
C9_ProbeDecidesMode ==
    pc = "ready" =>
        /\ last.op = "Init" =>
               AtLevel(last.log, "Warn") = (IF probe = Exited(0) THEN 0 ELSE 1)
        /\ last.op = "SystemDialog" =>
               IF probe = Exited(0)
               THEN Len(last.sys) = 1 /\ last.console = <<>>
               ELSE /\ last.sys = <<>>
                    /\ Len(last.console) = 1
                    /\ last.ret = last.console[1]

C9_Witness ==
    /\ probe = Exited(127)
    /\ last.op = "SystemDialog"
    /\ last.arg = "SDT_INFO"
    /\ last.ret = "SDR_CANCEL"
    /\ last.sys = <<>>

----------------------------------------------------------------------------
(* Claims about the time-stamp functions (TimeSpec) *)

\* C2: InterpolateTimeStamp(a, b, 0) is exactly a and
\* InterpolateTimeStamp(a, b, 1) is exactly b, seconds and nanoseconds.
C2_EndpointsExact ==
    tcall = "interpolate" =>
        /\ arg_i = FloatZero => dst = arg_a
        /\ arg_i = FloatOne => dst = arg_b

\* C3: the interpolated stamp r satisfies
\* TimeStampExactDiff(a, r) = trunc(TimeStampExactDiff(a, b) * i), for every i.
C3_DiffIsTruncatedProduct ==
    tcall = "interpolate" =>
        TimeStampExactDiff(arg_a, dst) =
            TruncMul(TimeStampExactDiff(arg_a, arg_b), arg_i)

\* C10: for normalized a and b and i in [0,1], the result's nanoseconds are
\* in [0, 10^9).
C10_ResultNormalized ==
    (tcall = "interpolate" /\ InUnit(arg_i)) => Normalized(dst)

\* C4: TimeStampExactDiff(a, b) is (b.sec - a.sec) * 10^9 + (b.nsec - a.nsec);
\* for normalized stamps it is positive exactly when b is strictly later
\* than a, zero exactly when a = b, and it changes sign when the arguments
\* are exchanged.
C4_ExactDiffOrdersStamps ==
    tcall = "diff" =>
        /\ exactDiff = (arg_b.tv_sec - arg_a.tv_sec) * 1000000000
                           + (arg_b.tv_nsec - arg_a.tv_nsec)
        /\ (exactDiff > 0) = Later(arg_a, arg_b)
        /\ (exactDiff = 0) = (arg_a = arg_b)
        /\ exactDiff = -TimeStampExactDiff(arg_b, arg_a)

C4_Witness ==
    /\ tcall = "diff"
    /\ arg_a = TS(0, 999999999)
    /\ arg_b = TS(1, 0)
    /\ exactDiff = 1

====
